---------------------------- MODULE Spec2Model ----------------------------
(***************************************************************************)
(* CurationsLA content sourcing workers.                                   *)
(*                                                                         *)
(* The repository holds three workers that implement the same pipeline:    *)
(*   "legacy"  src/src/content-sourcer.js lines 1-119                       *)
(*   "sourcer" src/src/content-sourcer.js lines 120-437                     *)
(*   "router"  src/unnamed/part_000                                         *)
(* Text is a sequence of one-character strings, so that toLowerCase and    *)
(* String.prototype.includes are computed character by character.          *)
(***************************************************************************)
EXTENDS Integers, Sequences, FiniteSets, TLC

VARIABLES
    sources,    \* config/sources.json as imported by the sourcer worker
    item,       \* the item under classification (classifier specification)
    verdicts,   \* outcomes observed so far, per filter, for `item`
    env,        \* worker bindings: GHOST_ADMIN_API_KEY, GHOST_SITE_URL
    now,        \* wall clock, in seconds
    store,      \* the KV namespaces: key -> entry
    tasks,      \* the invocations in flight, one record per slot
    started,    \* number of invocations started so far
    nextId,     \* crypto.randomUUID(): next unused identifier
    width,      \* how many invocations the platform runs at once
    deployed,   \* which of the three workers is the deployed script
    arg,        \* the argument of the function under analysis (function specifications)
    out         \* what the function returned for it, once applied

fvars == <<sources, item, verdicts>>
pvars == <<env, now, store, tasks, started, nextId, width, deployed>>
bvars == <<arg, out>>
vars == <<sources, item, verdicts, env, now, store, tasks, started, nextId, width, deployed,
          arg, out>>

-----------------------------------------------------------------------------
(* Bounds *)

MaxTitleChunks == 2
MaxMinScore == 2
MaxInvocations == 2

-----------------------------------------------------------------------------
(* Text *)

UpperCase ==
    <<"A","B","C","D","E","F","G","H","I","J","K","L","M",
      "N","O","P","Q","R","S","T","U","V","W","X","Y","Z">>

LowerCase ==
    <<"a","b","c","d","e","f","g","h","i","j","k","l","m",
      "n","o","p","q","r","s","t","u","v","w","x","y","z">>

Chars == {UpperCase[i] : i \in 1..Len(UpperCase)}
             \cup {LowerCase[i] : i \in 1..Len(LowerCase)}
             \cup {" ", ".", "<", ">", "&", ";", "/"}

toLowerCaseChar[c \in Chars] ==
    IF \E i \in 1..Len(UpperCase) : UpperCase[i] = c
    THEN LowerCase[CHOOSE i \in 1..Len(UpperCase) : UpperCase[i] = c]
    ELSE c

\* String.prototype.toLowerCase
toLowerCase(s) == [i \in 1..Len(s) |-> toLowerCaseChar[s[i]]]

\* String.prototype.includes: plain substring containment
includes(s, w) ==
    \E i \in 0..(Len(s) - Len(w)) : \A k \in 1..Len(w) : s[i + k] = w[k]

RECURSIVE Flatten(_)
Flatten(ss) == IF ss = <<>> THEN <<>> ELSE Head(ss) \o Flatten(Tail(ss))

\* sequences over S of length lo..hi
SeqsOf(S, lo, hi) == UNION {[1..n -> S] : n \in lo..hi}

-----------------------------------------------------------------------------
(* Words *)

wArt == <<"a","r","t">>
wMusic == <<"m","u","s","i","c">>
wFood == <<"f","o","o","d">>
wCulture == <<"c","u","l","t","u","r","e">>
wCommunity == <<"c","o","m","m","u","n","i","t","y">>
wFestival == <<"f","e","s","t","i","v","a","l">>
wCrime == <<"c","r","i","m","e">>
wShooting == <<"s","h","o","o","t","i","n","g">>
wMurder == <<"m","u","r","d","e","r">>
wDeath == <<"d","e","a","t","h">>
wAccident == <<"a","c","c","i","d","e","n","t">>
wPolitics == <<"p","o","l","i","t","i","c","s">>
wControversy == <<"c","o","n","t","r","o","v","e","r","s","y">>
wLa == <<"l","a">>

\* pieces that titles and descriptions of feed items are built from
Chunks ==
    { <<"D","e","a","t","h">>, wArt, <<"M","u","s","i","c">>, <<"L","A">> }

Titles == {Flatten(cs) : cs \in SeqsOf(Chunks, 1, MaxTitleChunks)}
Descriptions == {<<>>} \cup Chunks



-----------------------------------------------------------------------------
(* config/sources.json (imported at content-sourcer.js:123; the file itself *)
(* is configuration, so its keyword lists are inputs drawn at Init)         *)

RssFeeds ==
    << [name |-> "L.A. Taco", url |-> "lataco", category |-> "food"],
       [name |-> "LAist", url |-> "laist", category |-> "news"] >>

NegativeKeywordLists ==
    { <<>>, <<wDeath>>, <<wCrime, <<"D","E","A","T","H">> >> }

GoodKeywordLists ==
    { <<wArt, wMusic>>, << <<"A","r","t">> >> }

LAKeywordLists ==
    { <<>>, <<wLa>>, << <<"L","A">>, <<"v","e","n","i","c","e">> >> }

SourcesConfigs ==
    [ rss_feeds : {RssFeeds},
      negative_keywords : NegativeKeywordLists,
      good_vibes_keywords : GoodKeywordLists,
      content_filters : [ required_la_keywords : LAKeywordLists,
                          min_good_vibes_score : 0..MaxMinScore ] ]

-----------------------------------------------------------------------------
(* Good Vibes filters *)

\* `${item.title} ${item.description}`.toLowerCase()
itemText(it) == toLowerCase(it.title \o <<" ">> \o it.description)

hasNegativeRaw(text) ==
    \E i \in 1..Len(sources.negative_keywords) :
        includes(text, sources.negative_keywords[i])

hasNegative(text) ==
    \E i \in 1..Len(sources.negative_keywords) :
        includes(text, toLowerCase(sources.negative_keywords[i]))

\* reduce over the keyword list: one point per list entry that occurs
goodVibesScore(text) ==
    Cardinality({i \in 1..Len(sources.good_vibes_keywords) :
        includes(text, toLowerCase(sources.good_vibes_keywords[i]))})

hasLAKeyword(text) ==
    \E i \in 1..Len(sources.content_filters.required_la_keywords) :
        includes(text, toLowerCase(sources.content_filters.required_la_keywords[i]))

goodVibesPredicateStrict(it) ==
    LET text == itemText(it) IN
    IF hasNegative(text) THEN FALSE
    ELSE goodVibesScore(text) > sources.content_filters.min_good_vibes_score
         /\ hasLAKeyword(text)

\* the arrow function handed to items.filter
goodVibesPredicate(it) ==
    LET text == itemText(it) IN
    IF hasNegative(text) THEN FALSE
    ELSE goodVibesScore(text) >= sources.content_filters.min_good_vibes_score
         /\ hasLAKeyword(text)

filterGoodVibesContent(items) == SelectSeq(items, goodVibesPredicate)

\* router worker: hardcoded lists, random fallback
routerBannedWords == <<wCrime, wShooting, wMurder, wDeath, wAccident>>
routerGoodWords == <<wArt, wMusic, wFood, wCulture, wCommunity, wFestival>>

\* randomAbove is the outcome of `Math.random() > 0.3`
routerKeeps(it, randomAbove) ==
    LET text == toLowerCase(it.title \o <<" ">> \o it.excerpt)
        hasNeg == \E i \in 1..Len(routerBannedWords) :
                      includes(text, routerBannedWords[i])
        hasPositive == \E i \in 1..Len(routerGoodWords) :
                      includes(text, routerGoodWords[i])
    IN  IF hasNeg THEN FALSE ELSE hasPositive \/ randomAbove

\* the items for which Math.random() is called at all
routerUndecided(items) ==
    {i \in 1..Len(items) :
        ~routerKeeps(items[i], FALSE) /\ routerKeeps(items[i], TRUE)}

\* items.filter(...); lucky holds the indices whose draw exceeded 0.3
filterGoodVibes(items, lucky) ==
    LET keep == {i \in 1..Len(items) : routerKeeps(items[i], i \in lucky)}
        F[n \in 0..Len(items)] ==
            IF n = 0 THEN <<>>
            ELSE IF n \in keep THEN Append(F[n - 1], items[n]) ELSE F[n - 1]
    IN  F[Len(items)]

\* legacy worker: whole feed body, hardcoded list
Null == "null"
legacyBannedWords == <<wPolitics, wCrime, wShooting, wControversy, wDeath>>

parseAndFilter(content) ==
    LET filtered == toLowerCase(content) IN
    IF \E i \in 1..Len(legacyBannedWords) : includes(filtered, legacyBannedWords[i])
    THEN Null
    ELSE content


-----------------------------------------------------------------------------
(* Values shared by the three workers *)

None == <<>>
Some(v) == <<v>>

Min(a, b) == IF a <= b THEN a ELSE b

SecondsPerDay == 86400
RetentionDays == 7

\* new Date().toISOString().split('T')[0], new Date().toLocaleDateString()
dateOf(t) == t \div SecondsPerDay

Slots == {1, 2}

IdleTask ==
    [ worker |-> "none", op |-> "idle", pc |-> "idle", body |-> None,
      feeds |-> <<>>, i |-> 0, outcomes |-> <<>>, acc |-> <<>>,
      batch |-> None, cap |-> 0, key |-> None, loaded |-> None,
      sent |-> None, listed |-> <<>>, contents |-> <<>>,
      io |-> <<>>, resp |-> None ]

\* JSON.stringify / JSON.parse: the stored value is a string, not the object
JSONstringify(v) == [json |-> v]
JSONparse(str) == str.json

(* Feed bodies.  A body is the sequence of <item> elements of the XML; an   *)
(* element's title, link and description are matched (Some) or not (None).  *)
tArtMusicLA == wArt \o <<" ">> \o <<"M","u","s","i","c">> \o <<" ">> \o <<"L","A">>
tDeathArt == <<"D","e","a","t","h">> \o <<" ">> \o wArt
tLA == <<"L","A">>

elGood(n) == [title |-> Some(tArtMusicLA), link |-> Some(n), description |-> Some(wFood)]
elBanned == [title |-> Some(tDeathArt), link |-> Some(7), description |-> Some(tLA)]
elPlain == [title |-> Some(tLA), link |-> Some(8), description |-> None]
elNoLink == [title |-> Some(tArtMusicLA), link |-> None, description |-> None]

FeedBody ==
    << elGood(1), elBanned, elNoLink, elGood(2),
       elPlain, elGood(3), elGood(4), elGood(5), elGood(6) >>

\* what `await fetch(url)` followed by `await response.text()` can do
FetchOutcomes ==
    { [kind |-> "throw", body |-> <<>>],
      [kind |-> "ok", body |-> FeedBody] }

\* what the CMS can answer to the POST
CmsResponses ==
    { [ok |-> TRUE, status |-> 201, postId |-> 42],
      [ok |-> FALSE, status |-> 401, postId |-> 0] }

AdminKey == [id |-> "kid", secret |-> "hexsecret"]

Envs ==
    [ GHOST_ADMIN_API_KEY : {None, Some(AdminKey)},
      GHOST_SITE_URL : {"https://curationsla-1.ghost.io"} ]

(* KV namespace: put, get, and the liveness of an entry under its TTL *)
KVput(st, key, value, options, t) ==
    [k \in DOMAIN st \cup {key} |->
        IF k = key THEN [value |-> value, expirationTtl |-> options, writtenAt |-> t]
        ELSE st[k]]

Live(st, key, t) ==
    /\ key \in DOMAIN st
    /\ \/ st[key].expirationTtl = None
       \/ t < st[key].writtenAt + st[key].expirationTtl[1]

KVget(st, key, t) == IF Live(st, key, t) THEN Some(st[key].value) ELSE None

(* Invocation bookkeeping *)
\* a new invocation takes the lowest free slot, if the platform has room
FreeSlot(s) ==
    /\ tasks[s].pc = "idle"
    /\ \A r \in Slots : r < s => tasks[r].pc # "idle"
    /\ Cardinality({r \in Slots : tasks[r].pc # "idle"}) < width
    /\ started < MaxInvocations

Begin(s, task) ==
    /\ tasks' = [tasks EXCEPT ![s] = task]
    /\ started' = started + 1
    /\ UNCHANGED <<env, now, width, deployed>>
    /\ UNCHANGED <<fvars, bvars>>

Step(s, task) ==
    /\ tasks' = [tasks EXCEPT ![s] = task]
    /\ UNCHANGED <<env, now, started, width, deployed>>
    /\ UNCHANGED <<fvars, bvars>>

Respond(task, response) ==
    [task EXCEPT !.pc = "done", !.resp = Some(response)]

-----------------------------------------------------------------------------
(* sourcer worker: src/src/content-sourcer.js 120-437 *)

SourcerNamespace == "curationsla-content-storage"
FeedItemLimit == 5
DescriptionPreview == 150
TokenLifetime == 300

parseRSSItems(rssText) ==
    LET keep == {n \in 1..Len(rssText) :
                    rssText[n].title # None /\ rssText[n].link # None}
        F[n \in 0..Len(rssText)] ==
            IF n = 0 THEN <<>>
            ELSE IF n \in keep
                 THEN Append(F[n - 1],
                        [ title |-> rssText[n].title[1],
                          link |-> rssText[n].link[1],
                          description |->
                              IF rssText[n].description # None
                              THEN rssText[n].description[1] ELSE <<>> ])
                 ELSE F[n - 1]
    IN  F[Len(rssText)]

\* one pass of the for-loop body, inside its try
sourcerGroup(feed, rssText) ==
    LET items == parseRSSItems(rssText)
        filteredItems == filterGoodVibesContent(items)
    IN  [ source |-> feed.name, category |-> feed.category,
          items |-> SubSeq(filteredItems, 1, Min(FeedItemLimit, Len(filteredItems))) ]

\* the loop's effect on sourcedContent for one feed
sourcerPushBreaking(acc, feed, o) ==
    IF o.kind = "throw" THEN <<>> ELSE Append(acc, sourcerGroup(feed, o.body))

sourcerPush(acc, feed, o) ==
    IF o.kind = "throw" THEN acc ELSE Append(acc, sourcerGroup(feed, o.body))

RECURSIVE SumItems(_)
SumItems(groups) ==
    IF groups = <<>> THEN 0 ELSE Len(Head(groups).items) + SumItems(Tail(groups))

sourcerContentKey(t) == <<SourcerNamespace, "content_", dateOf(t)>>

\* the options handed to put: handleSourceContent passes none
sourcerPutOptions == None

\* item.description.substring(0, 150) + "..."
descriptionPreview(d) ==
    SubSeq(d, 1, Min(DescriptionPreview, Len(d))) \o <<".", ".", ".">>

draftListItem(it) ==
    [ tag |-> "li", href |-> it.link, text |-> it.title,
      small |-> IF it.description # <<>>
                THEN Some(descriptionPreview(it.description)) ELSE None ]

\* the section written for every group, with or without items
draftSectionAlways(source) ==
    << [tag |-> "h2", text |-> <<source.source, source.category>>],
       [tag |-> "ul",
        items |-> [n \in 1..Len(source.items) |-> draftListItem(source.items[n])]] >>

\* if (source.items.length > 0) { <h2>, <ul> of <li> }
draftSection(source) ==
    IF Len(source.items) > 0
    THEN << [tag |-> "h2", text |-> <<source.source, source.category>>],
            [tag |-> "ul",
             items |-> [n \in 1..Len(source.items) |-> draftListItem(source.items[n])]] >>
    ELSE <<>>

generateDraftHTML(content, title) ==
    [ title |-> title,
      html |-> << [tag |-> "h1", text |-> title],
                  [tag |-> "p", text |-> <<"A curated collection of Good Vibes from around LA">>] >>
               \o Flatten([n \in 1..Len(content) |-> draftSection(content[n])])
               \o << [tag |-> "hr", text |-> <<>>],
                     [tag |-> "p", text |-> <<"A project curated by Humans x AI at Curations.cc">>] >> ]

base64urlEscape(str) == [b64url |-> str]
btoa(str) == [b64 |-> str]

\* the token with its lifetime taken as 5 seconds
generateGhostJWTShortLived(adminAPIKey, t) ==
    LET header == [alg |-> "HS256", typ |-> "JWT", kid |-> adminAPIKey.id]
        payload == [iat |-> t, exp |-> t + 5, aud |-> "/admin/"]
        encodedHeader == base64urlEscape(btoa(JSONstringify(header)))
        encodedPayload == base64urlEscape(btoa(JSONstringify(payload)))
        signature == base64urlEscape(btoa(<<encodedHeader, encodedPayload, adminAPIKey.secret>>))
    IN  <<encodedHeader, encodedPayload, signature>>

\* adminAPIKey is "id:secret", held as the two halves split(':') yields;
\* t is Math.floor(Date.now() / 1000), read for iat and again for exp with
\* no await between the two reads
generateGhostJWT(adminAPIKey, t) ==
    LET header == [alg |-> "HS256", typ |-> "JWT", kid |-> adminAPIKey.id]
        payload == [iat |-> t, exp |-> t + TokenLifetime, aud |-> "/admin/"]
        encodedHeader == base64urlEscape(btoa(JSONstringify(header)))
        encodedPayload == base64urlEscape(btoa(JSONstringify(payload)))
        signature == base64urlEscape(btoa(<<encodedHeader, encodedPayload, adminAPIKey.secret>>))
    IN  <<encodedHeader, encodedPayload, signature>>

\* the argument handleCreateDraft hands to createGhostDraft
sourcerPostData(draftContent) ==
    [ title |-> draftContent.title, html |-> draftContent.html,
      status |-> "draft",
      tags |-> <<"curations-la", "good-vibes", "newsletter">> ]

\* the request createGhostDraft(postData, env) sends
sourcerGhostRequest(postData, t) ==
    [ url |-> <<env.GHOST_SITE_URL, "/ghost/api/admin/posts/">>,
      authorization |-> <<"Ghost", generateGhostJWT(env.GHOST_ADMIN_API_KEY[1], t)>>,
      posts |-> <<postData>> ]

(* handleSourceContent, called by fetch() or by gatherDailyContent *)
SourcerStartSource(s) ==
    /\ deployed = "sourcer"
    /\ FreeSlot(s)
    /\ \E trigger \in {"source-content", "scheduled"} :
        Begin(s, [IdleTask EXCEPT
            !.worker = "sourcer", !.op = trigger,
            !.feeds = sources.rss_feeds, !.i = 1,
            !.pc = IF Len(sources.rss_feeds) = 0 THEN "storing" ELSE "fetching"])
    /\ UNCHANGED <<store, nextId>>

\* the loop with the put moved inside it
SourcerFetchFeedPersisting(s) ==
    LET task == tasks[s] IN
    /\ task.worker = "sourcer" /\ task.pc = "fetching"
    /\ \E o \in FetchOutcomes :
        LET acc == sourcerPush(task.acc, task.feeds[task.i], o) IN
        /\ Step(s, [task EXCEPT
                !.outcomes = Append(@, o),
                !.acc = acc,
                !.io = Append(@, "fetch"),
                !.i = @ + 1,
                !.pc = IF task.i = Len(task.feeds) THEN "storing" ELSE "fetching"])
        /\ store' = KVput(store, sourcerContentKey(now), JSONstringify(acc),
                          sourcerPutOptions, now)
    /\ UNCHANGED nextId

SourcerFetchFeed(s) ==
    LET task == tasks[s] IN
    /\ task.worker = "sourcer" /\ task.pc = "fetching"
    /\ \E o \in FetchOutcomes :
        Step(s, [task EXCEPT
            !.outcomes = Append(@, o),
            !.acc = sourcerPush(@, task.feeds[task.i], o),
            !.io = Append(@, "fetch"),
            !.i = @ + 1,
            !.pc = IF task.i = Len(task.feeds) THEN "storing" ELSE "fetching"])
    /\ UNCHANGED <<store, nextId>>

SourcerStore(s) ==
    LET task == tasks[s]
        contentKey == sourcerContentKey(now)
        stepped == [task EXCEPT !.key = Some(contentKey), !.io = Append(@, "put")]
    IN
    /\ task.worker = "sourcer" /\ task.pc = "storing"
    /\ \/ /\ store' = KVput(store, contentKey, JSONstringify(task.acc),
                            sourcerPutOptions, now)
          /\ Step(s, Respond(stepped,
                [ status |-> 200, success |-> TRUE,
                  sources_processed |-> Len(sources.rss_feeds),
                  items_found |-> SumItems(task.acc),
                  storage_key |-> contentKey ]))
       \/ /\ UNCHANGED store   \* put rejects
          /\ Step(s, Respond([stepped EXCEPT !.io = Append(task.io, "put-rejected")],
                [status |-> 500, error |-> "Failed to source content"]))
    /\ UNCHANGED nextId

(* handleCreateDraft *)
SourcerDraftBodies ==
    [ title : {None, Some("Weekend Picks")},
      publicationDate : {None, Some(0), Some(3)},
      status : {None, Some("published")} ]

sourcerDraftKey(body, t) ==
    <<SourcerNamespace, "content_",
      IF body.publicationDate # None THEN body.publicationDate[1] ELSE dateOf(t)>>

sourcerDraftTitle(body, t) ==
    IF body.title # None THEN <<body.title[1], 0>>
    ELSE <<"CurationsLA Good Vibes - ", dateOf(t)>>

SourcerStartDraft(s) ==
    /\ deployed = "sourcer"
    /\ FreeSlot(s)
    /\ \E body \in {None} \cup {Some(b) : b \in SourcerDraftBodies} :
        LET task == [IdleTask EXCEPT !.worker = "sourcer", !.op = "create-draft",
                                     !.body = body] IN
        IF body = None   \* request.json() throws
        THEN Begin(s, Respond(task,
                [status |-> 500, error |-> "Failed to create draft"]))
        ELSE Begin(s, [task EXCEPT !.pc = "loading"])
    /\ UNCHANGED <<store, nextId>>

SourcerLoadBatch(s) ==
    LET task == tasks[s]
        body == task.body[1]
        contentKey == sourcerDraftKey(body, now)
        storedContent == KVget(store, contentKey, now)
        stepped == [task EXCEPT !.key = Some(contentKey), !.io = Append(@, "get")]
        draftContent == generateDraftHTML(JSONparse(storedContent[1]),
                                          sourcerDraftTitle(body, now))
    IN
    /\ task.worker = "sourcer" /\ task.pc = "loading"
    /\ \/ Step(s, Respond([stepped EXCEPT !.io = Append(task.io, "get-rejected")],
                [status |-> 500, error |-> "Failed to create draft"]))   \* get rejects
       \/ /\ storedContent = None
          /\ Step(s, Respond(stepped,
                [status |-> 404, error |-> "No content found"]))
       \/ /\ storedContent # None
          /\ env.GHOST_ADMIN_API_KEY = None   \* undefined.split throws
          /\ Step(s, Respond([stepped EXCEPT !.loaded = storedContent],
                [status |-> 500, error |-> "Failed to create draft"]))
       \/ /\ storedContent # None
          /\ env.GHOST_ADMIN_API_KEY # None
          /\ Step(s, [stepped EXCEPT
                !.loaded = storedContent,
                !.sent = Some(sourcerGhostRequest(sourcerPostData(draftContent), now)),
                !.io = Append(@, "cms"),
                !.pc = "submitting"])
    /\ UNCHANGED <<store, nextId>>

SourcerCmsResponse(s) ==
    LET task == tasks[s] IN
    /\ task.worker = "sourcer" /\ task.pc = "submitting"
    /\ \E r \in CmsResponses :
        IF r.ok
        THEN Step(s, Respond(task,
                [ status |-> 200, success |-> TRUE, ghost_post_id |-> r.postId ]))
        ELSE Step(s, Respond(task,
                [status |-> 500, error |-> "Failed to create draft"]))
    /\ UNCHANGED <<store, nextId>>

-----------------------------------------------------------------------------
(* router worker: src/unnamed/part_000 *)

ExcerptLimit == 200
DefaultMaxItems == 10

routerDefaultSources == <<"laist.com", "la.eater.com", "timeout.com">>

\* the concatenation of parts[lo], ..., parts[hi]
RECURSIVE Join(_, _, _)
Join(parts, lo, hi) ==
    IF lo > hi THEN <<>>
    ELSE IF lo = hi THEN parts[lo]
    ELSE LET mid == (lo + hi) \div 2 IN
         Join(parts, lo, mid) \o Join(parts, mid + 1, hi)

\* str.replace(/<[^>]*>/g, ''): a match runs from a "<" to the first ">"
\* after it; a character is dropped when such a match covers it
stripTags(str) ==
    LET opens == {j \in 1..Len(str) : str[j] = "<"}
        closes == {k \in 1..Len(str) : str[k] = ">"}
        inTag(i) ==
            \E j \in opens :
                /\ j <= i
                /\ \A k \in closes : ~(j < k /\ k < i)
                /\ \E k \in closes : j < k /\ i <= k
        parts == [i \in 1..Len(str) |-> IF inTag(i) THEN <<>> ELSE <<str[i]>>]
    IN  Join(parts, 1, Len(str))

\* str.replace(/&[^;]+;/g, ' '): a match runs from an "&" to the first ";"
\* after it, with at least one character between; it is replaced by a space
replaceEntities(str) ==
    LET semis == {k \in 1..Len(str) : str[k] = ";"}
        starts == {j \in 1..Len(str) :
                      /\ str[j] = "&"
                      /\ (j + 1) \notin semis
                      /\ \E k \in semis : j < k}
        covers(j, i) == j <= i /\ \A k \in semis : ~(j < k /\ k < i)
        parts == [i \in 1..Len(str) |->
                    IF \E j \in starts : j < i /\ covers(j, i) THEN <<>>
                    ELSE IF i \in starts THEN <<" ">>
                    ELSE <<str[i]>>]
    IN  Join(parts, 1, Len(str))

\* String.prototype.trim
trim(str) ==
    LET inked == {n \in 1..Len(str) : str[n] # " "} IN
    IF inked = {} THEN <<>>
    ELSE SubSeq(str, CHOOSE a \in inked : \A n \in inked : a <= n,
                     CHOOSE b \in inked : \A n \in inked : b >= n)

cleanHtml(str) == trim(replaceEntities(stripTags(str)))

\* new URL(url).hostname.replace('www.', ''); links are opaque here
extractDomain(url) == [hostnameOf |-> url]

\* descMatch ? cleanHtml(descMatch[1]).substring(0, 200) + '...' : ''
routerExcerpt(description) ==
    IF description # None
    THEN LET cleaned == cleanHtml(description[1]) IN
         SubSeq(cleaned, 1, Min(ExcerptLimit, Len(cleaned))) \o <<".", ".", ".">>
    ELSE <<>>

parseRSSFeed(xmlText, maxItems) ==
    LET last == Min(Len(xmlText), maxItems)
        keep == {n \in 1..last : xmlText[n].title # None /\ xmlText[n].link # None}
        F[n \in 0..Len(xmlText)] ==
            IF n = 0 THEN <<>>
            ELSE IF n \in keep
                 THEN Append(F[n - 1],
                        [ title |-> cleanHtml(xmlText[n].title[1]),
                          link |-> xmlText[n].link[1],
                          excerpt |-> routerExcerpt(xmlText[n].description),
                          source |-> extractDomain(xmlText[n].link[1]) ])
                 ELSE F[n - 1]
    IN  IF last <= 0 THEN <<>> ELSE F[last]

\* Math.ceil(maxItems / sourcesToFetch.length)
routerCap(maxItems, n) == (maxItems + n - 1) \div n

routerContentKey(id) == <<SourcerNamespace, "content:", id>>

\* the options handed to put: { expirationTtl: 86400 * 7 }
routerPutOptions == Some(SecondsPerDay * RetentionDays)

\* sourcedContent.content.items.push(...items), inside the per-feed try
routerPush(acc, cap, o) ==
    IF o.kind = "throw" THEN acc ELSE acc \o parseRSSFeed(o.body, cap)

(* handleSourceContent *)
RouterSourceBodies ==
    [ sources : {<<>>, <<"feeds.example.org">>},
      maxItems : {DefaultMaxItems, 2} ]

RouterStartSource(s) ==
    /\ deployed = "router"
    /\ FreeSlot(s)
    /\ \E body \in {None} \cup {Some(b) : b \in RouterSourceBodies} :
        LET task == [IdleTask EXCEPT !.worker = "router", !.op = "source-content",
                                     !.body = body] IN
        IF body = None   \* request.json() throws
        THEN /\ Begin(s, Respond(task,
                    [status |-> 500, error |-> "Failed to source content"]))
             /\ UNCHANGED nextId
        ELSE LET sourcesToFetch ==
                    IF Len(body[1].sources) > 0 THEN body[1].sources
                    ELSE routerDefaultSources
             IN
             /\ Begin(s, [task EXCEPT
                    !.feeds = sourcesToFetch, !.i = 1, !.pc = "fetching",
                    !.cap = routerCap(body[1].maxItems, Len(sourcesToFetch)),
                    !.batch = Some([ id |-> nextId, timestamp |-> now,
                                     category |-> "general",
                                     sources |-> sourcesToFetch,
                                     title |-> <<"LA Newsletter Draft - ", dateOf(now)>>,
                                     status |-> "sourced" ])])
             /\ nextId' = nextId + 1
    /\ UNCHANGED store

\* the loop without its inner try: a feed that throws ends the request
RouterFetchFeedAborting(s) ==
    LET task == tasks[s] IN
    /\ task.worker = "router" /\ task.pc = "fetching"
    /\ \E o \in FetchOutcomes :
        LET stepped == [task EXCEPT
                !.outcomes = Append(@, o),
                !.acc = routerPush(@, task.cap, o),
                !.io = Append(@, "fetch"),
                !.i = @ + 1,
                !.pc = IF task.i = Len(task.feeds) THEN "storing" ELSE "fetching"]
        IN
        IF o.kind = "throw"
        THEN Step(s, Respond(stepped,
                [status |-> 500, error |-> "Failed to source content"]))
        ELSE Step(s, stepped)
    /\ UNCHANGED <<store, nextId>>

RouterFetchFeed(s) ==
    LET task == tasks[s] IN
    /\ task.worker = "router" /\ task.pc = "fetching"
    /\ \E o \in FetchOutcomes :
        Step(s, [task EXCEPT
            !.outcomes = Append(@, o),
            !.acc = routerPush(@, task.cap, o),
            !.io = Append(@, "fetch"),
            !.i = @ + 1,
            !.pc = IF task.i = Len(task.feeds) THEN "storing" ELSE "fetching"])
    /\ UNCHANGED <<store, nextId>>

RouterStore(s) ==
    LET task == tasks[s]
        key == routerContentKey(task.batch[1].id)
    IN
    /\ task.worker = "router" /\ task.pc = "storing"
    /\ \E lucky \in SUBSET routerUndecided(task.acc) :
        LET items == filterGoodVibes(task.acc, lucky)
            sourcedContent == [task.batch[1] EXCEPT !.status = "sourced"]
            value == [batch |-> sourcedContent, items |-> items]
            stepped == [task EXCEPT !.key = Some(key), !.io = Append(@, "put")]
        IN
        \/ /\ store' = KVput(store, key, JSONstringify(value), routerPutOptions, now)
           /\ Step(s, Respond(stepped,
                 [ status |-> 200, success |-> TRUE,
                   contentId |-> task.batch[1].id, itemCount |-> Len(items) ]))
        \/ /\ UNCHANGED store   \* put rejects
           /\ Step(s, Respond([stepped EXCEPT !.io = Append(task.io, "put-rejected")],
                 [status |-> 500, error |-> "Failed to source content"]))
    /\ UNCHANGED nextId

(* createGhostDraft *)
RouterDraftBodies ==
    [ contentId : {Some(1), Some(9)},
      title : {None, Some("Weekend Picks")},
      html : {None, Some(<<[tag |-> "caller", text |-> <<"anything">>]>>)},
      tags : { [iterable |-> TRUE, values |-> <<"la">>],
               [iterable |-> FALSE, values |-> <<>>] },
      status : {None, Some("published")} ]

\* the post built by spreading the request body over the defaults
routerPostSpreading(body, t) ==
    [ title |-> IF body.title # None THEN <<body.title[1], 0>>
                ELSE <<"CurationsLA Draft - ", dateOf(t)>>,
      html |-> IF body.html # None THEN body.html[1]
               ELSE <<[tag |-> "p", text |-> <<"Content sourced and ready for editing!">>]>>,
      status |-> IF body.status # None THEN body.status[1] ELSE "draft",
      tags |-> <<"curations-la", "newsletter">> \o body.tags.values ]

\* const { contentId, title, html, tags = [] } = await request.json()
routerPost(body, t) ==
    [ title |-> IF body.title # None THEN <<body.title[1], 0>>
                ELSE <<"CurationsLA Draft - ", dateOf(t)>>,
      html |-> IF body.html # None THEN body.html[1]
               ELSE <<[tag |-> "p", text |-> <<"Content sourced and ready for editing!">>]>>,
      status |-> "draft",
      tags |-> <<"curations-la", "newsletter">> \o body.tags.values ]

routerGhostRequest(body, t) ==
    [ url |-> <<"https://curationsla-1.ghost.io", "/ghost/api/admin/posts/">>,
      authorization |-> <<"Ghost", generateGhostJWT(env.GHOST_ADMIN_API_KEY[1], t)>>,
      posts |-> <<routerPost(body, t)>> ]

RouterStartDraft(s) ==
    /\ deployed = "router"
    /\ FreeSlot(s)
    /\ \E body \in {None} \cup {Some(b) : b \in RouterDraftBodies} :
        LET task == [IdleTask EXCEPT !.worker = "router", !.op = "create-draft",
                                     !.body = body] IN
        IF \/ body = None                      \* request.json() throws
           \/ env.GHOST_ADMIN_API_KEY = None   \* key not configured
           \/ ~body[1].tags.iterable           \* ...tags throws
        THEN Begin(s, Respond(task,
                [status |-> 500, error |-> "Failed to create Ghost draft"]))
        ELSE Begin(s, [task EXCEPT
                !.sent = Some(routerGhostRequest(body[1], now)),
                !.io = Append(@, "cms"),
                !.pc = "submitting"])
    /\ UNCHANGED <<store, nextId>>

RouterCmsResponse(s) ==
    LET task == tasks[s] IN
    /\ task.worker = "router" /\ task.pc = "submitting"
    /\ \E r \in CmsResponses :
        IF r.ok
        THEN Step(s, Respond(task,
                [ status |-> 200, success |-> TRUE, ghost_post_id |-> r.postId ]))
        ELSE Step(s, Respond(task,
                [status |-> 500, error |-> "Failed to create Ghost draft"]))
    /\ UNCHANGED <<store, nextId>>


(* getSourcedContent *)
\* list({ prefix: 'content:' }): the live keys with the prefix, in some order
Listings(st, t) ==
    LET live == {k \in DOMAIN st : Live(st, k, t) /\ k[2] = "content:"}
        n == Cardinality(live)
    IN  {keys \in [1..n -> live] : \A a, b \in 1..n : keys[a] = keys[b] => a = b}

routerContentsResponse(contents) ==
    [ status |-> 200, success |-> TRUE, count |-> Len(contents), contents |-> contents ]

RouterStartGet(s) ==
    /\ deployed = "router"
    /\ FreeSlot(s)
    /\ LET task == [IdleTask EXCEPT !.worker = "router", !.op = "get-content"] IN
       \/ \E keys \in Listings(store, now) :
            LET listing == [task EXCEPT !.listed = keys, !.i = 1,
                                        !.io = Append(@, "list"), !.pc = "reading"]
            IN  IF keys = <<>>
                THEN Begin(s, Respond(listing, routerContentsResponse(<<>>)))
                ELSE Begin(s, listing)
       \/ Begin(s, Respond([task EXCEPT !.io = Append(@, "list-rejected")],   \* list rejects
                [status |-> 500, error |-> "Failed to get content"]))
    /\ UNCHANGED <<store, nextId>>

\* the loop without its test of what get returned: JSON.parse(null) is null
RouterGetNextPushingNull(s) ==
    LET task == tasks[s]
        content == KVget(store, task.listed[task.i], now)
        contents == Append(task.contents,
                           IF content # None THEN JSONparse(content[1]) ELSE None)
        read == [task EXCEPT !.contents = contents, !.i = @ + 1,
                             !.io = Append(@, "get")]
    IN
    /\ task.worker = "router" /\ task.pc = "reading"
    /\ \/ IF task.i = Len(task.listed)
          THEN Step(s, Respond(read, routerContentsResponse(contents)))
          ELSE Step(s, read)
       \/ Step(s, Respond([task EXCEPT !.io = Append(@, "get-rejected")],   \* get rejects
                [status |-> 500, error |-> "Failed to get content"]))
    /\ UNCHANGED <<store, nextId>>

\* one turn of `for (const key of contentList.keys)`, and the response after
\* the last one
RouterGetNext(s) ==
    LET task == tasks[s]
        content == KVget(store, task.listed[task.i], now)
        contents == IF content # None THEN Append(task.contents, JSONparse(content[1]))
                    ELSE task.contents
        read == [task EXCEPT !.contents = contents, !.i = @ + 1,
                             !.io = Append(@, "get")]
    IN
    /\ task.worker = "router" /\ task.pc = "reading"
    /\ \/ IF task.i = Len(task.listed)
          THEN Step(s, Respond(read, routerContentsResponse(contents)))
          ELSE Step(s, read)
       \/ Step(s, Respond([task EXCEPT !.io = Append(@, "get-rejected")],   \* get rejects
                [status |-> 500, error |-> "Failed to get content"]))
    /\ UNCHANGED <<store, nextId>>
-----------------------------------------------------------------------------
(* legacy worker: src/src/content-sourcer.js 1-119 *)

LegacyNamespace == "CONTENT_KV"

legacySources == <<"lataco.com", "la.eater.com", "laist.com", "timeout.com">>

\* the text of a feed body: what response.text() yields for its elements
RECURSIVE bodyText(_)
bodyText(body) ==
    IF body = <<>> THEN <<>>
    ELSE LET el == Head(body) IN
         (IF el.title # None THEN el.title[1] ELSE <<>>) \o <<" ">>
         \o (IF el.description # None THEN el.description[1] ELSE <<>>) \o <<" ">>
         \o bodyText(Tail(body))

\* content.push(await parseAndFilter(text)), inside the per-source try
legacyPush(acc, o) ==
    IF o.kind = "throw" THEN acc
    ELSE LET text == bodyText(o.body) IN
         Append(acc, IF parseAndFilter(text) = Null THEN None ELSE Some(text))

\* `content:${new Date().toISOString()}`: the timestamp has millisecond
\* resolution; ms stands for the part of it below the model's instants
legacyContentKey(t, ms) == <<LegacyNamespace, "content:", t, ms>>

\* the options handed to put: gatherDailyContent passes none
legacyPutOptions == None

(* sourceContent, called by fetch() or by gatherDailyContent *)
LegacyStartSource(s) ==
    /\ deployed = "legacy"
    /\ FreeSlot(s)
    /\ \E trigger \in {"source-content", "scheduled"} :
        Begin(s, [IdleTask EXCEPT
            !.worker = "legacy", !.op = trigger,
            !.feeds = legacySources, !.i = 1, !.pc = "fetching"])
    /\ UNCHANGED <<store, nextId>>

LegacyFetchFeed(s) ==
    LET task == tasks[s]
        last == task.i = Len(task.feeds)
    IN
    /\ task.worker = "legacy" /\ task.pc = "fetching"
    /\ \E o \in FetchOutcomes :
        LET stepped == [task EXCEPT
                !.outcomes = Append(@, o),
                !.acc = legacyPush(@, o),
                !.io = Append(@, "fetch"),
                !.i = @ + 1]
        IN
        IF ~last THEN Step(s, stepped)
        ELSE IF task.op = "scheduled" THEN Step(s, [stepped EXCEPT !.pc = "storing"])
        ELSE Step(s, Respond(stepped, [status |-> 200, content |-> stepped.acc]))
    /\ UNCHANGED <<store, nextId>>

\* gatherDailyContent: no try around the put
LegacyStore(s) ==
    LET task == tasks[s]
        key == legacyContentKey(now, started)
        stepped == [task EXCEPT !.key = Some(key), !.io = Append(@, "put")]
    IN
    /\ task.worker = "legacy" /\ task.pc = "storing"
    /\ \/ /\ store' = KVput(store, key, JSONstringify([content |-> task.acc]),
                            legacyPutOptions, now)
          /\ Step(s, Respond(stepped, [status |-> 0, settled |-> "fulfilled"]))
       \/ /\ UNCHANGED store   \* put rejects
          /\ Step(s, Respond([stepped EXCEPT !.io = Append(task.io, "put-rejected")],
                [status |-> 0, settled |-> "rejected"]))
    /\ UNCHANGED nextId

(* createGhostDraft(request, env): no try; an exception is the runtime's 500 *)
LegacyDraftBodies ==
    [ title : {None, Some("Weekend Picks")},
      content : {<<[tag |-> "caller", text |-> <<"anything">>]>>},
      publicationDate : {Some(0)},
      status : {None, Some("published")} ]

legacyGhostRequest(body) ==
    [ url |-> <<"https://curationsla-1.ghost.io", "/ghost/api/v4/admin/posts/">>,
      authorization |-> <<"Ghost", env.GHOST_ADMIN_API_KEY>>,
      posts |-> << [ title |-> IF body.title # None THEN <<body.title[1], 0>>
                               ELSE <<"CurationsLA - ", body.publicationDate[1]>>,
                     status |-> "draft",
                     tags |-> <<"newsletter">>,
                     html |-> body.content ] >> ]

LegacyStartDraft(s) ==
    /\ deployed = "legacy"
    /\ FreeSlot(s)
    /\ \E body \in {None} \cup {Some(b) : b \in LegacyDraftBodies} :
        LET task == [IdleTask EXCEPT !.worker = "legacy", !.op = "create-draft",
                                     !.body = body] IN
        IF body = None   \* request.json() throws
        THEN Begin(s, Respond(task, [status |-> 500, error |-> "exception"]))
        ELSE Begin(s, [task EXCEPT
                !.sent = Some(legacyGhostRequest(body[1])),
                !.io = Append(@, "cms"),
                !.pc = "submitting"])
    /\ UNCHANGED <<store, nextId>>

LegacyCmsResponse(s) ==
    LET task == tasks[s] IN
    /\ task.worker = "legacy" /\ task.pc = "submitting"
    /\ \E r \in CmsResponses :
        IF r.ok
        THEN Step(s, Respond(task,
                [ status |-> 200, success |-> TRUE, draftId |-> r.postId ]))
        ELSE Step(s, Respond(task, [status |-> 500, error |-> "exception"]))
    /\ UNCHANGED <<store, nextId>>

-----------------------------------------------------------------------------
(* Runtime and clock *)

\* the response has been delivered; the slot is free again
Return(s) ==
    /\ tasks[s].pc \in {"done", "cancelled"}
    /\ Step(s, IdleTask)
    /\ UNCHANGED <<store, nextId>>

\* the triggering request is cancelled, or the invocation is evicted, at an await
Cancel(s) ==
    /\ tasks[s].pc \notin {"idle", "done", "cancelled"}
    /\ Step(s, [IdleTask EXCEPT !.pc = "cancelled", !.worker = tasks[s].worker,
                                 !.op = tasks[s].op, !.io = tasks[s].io])
    /\ UNCHANGED <<store, nextId>>

\* the instants at which the model looks at the clock: day 0 and day 7
Instants == {0, RetentionDays * SecondsPerDay}

Tick ==
    /\ \E t \in Instants : t > now /\ now' = t
    /\ UNCHANGED <<env, store, tasks, started, nextId, width, deployed>>
    /\ UNCHANGED <<fvars, bvars>>

PipelineConfig ==
    [ rss_feeds |-> RssFeeds,
      negative_keywords |-> <<wCrime, wDeath>>,
      good_vibes_keywords |-> <<wArt, wMusic>>,
      content_filters |-> [ required_la_keywords |-> <<wLa>>,
                            min_good_vibes_score |-> 2 ] ]

InitPipeline ==
    /\ sources = PipelineConfig
    /\ item = [title |-> tLA, description |-> <<>>]
    /\ verdicts = [f \in {"filterGoodVibesContent", "filterGoodVibes", "parseAndFilter"} |-> {}]
    /\ env \in Envs
    /\ now = 0
    /\ store = <<>>
    /\ tasks = [s \in Slots |-> IdleTask]
    /\ started = 0
    /\ nextId = 1
    /\ arg = None
    /\ out = None

Workers == {"sourcer", "router", "legacy"}

Init == InitPipeline /\ width = 1 /\ deployed \in Workers

Next ==
    \/ \E s \in Slots :
        \/ SourcerStartSource(s)
        \/ SourcerFetchFeed(s)
        \/ SourcerStore(s)
        \/ SourcerStartDraft(s)
        \/ SourcerLoadBatch(s)
        \/ SourcerCmsResponse(s)
        \/ RouterStartSource(s)
        \/ RouterFetchFeed(s)
        \/ RouterStore(s)
        \/ RouterStartDraft(s)
        \/ RouterCmsResponse(s)
        \/ RouterStartGet(s)
        \/ RouterGetNext(s)
        \/ LegacyStartSource(s)
        \/ LegacyFetchFeed(s)
        \/ LegacyStore(s)
        \/ LegacyStartDraft(s)
        \/ LegacyCmsResponse(s)
        \/ Return(s)
        \/ Cancel(s)
    \/ Tick

Spec == Init /\ [][Next]_vars


(* The router serving one sourcing client and one reading client, whose   *)
(* requests overlap: a source-content run and a get-content run in flight   *)
(* together, neither client issuing a request before its last has ended.    *)

\* what an earlier source-content run, all of whose feeds failed, has stored
EarlierBatch ==
    [ batch |-> [ id |-> 0, timestamp |-> 0, category |-> "general",
                  sources |-> routerDefaultSources,
                  title |-> <<"LA Newsletter Draft - ", dateOf(0)>>,
                  status |-> "sourced" ],
      items |-> <<>> ]

\* the namespace is empty, or holds the batch of the earlier run
InitBulk ==
    /\ sources = PipelineConfig
    /\ item = [title |-> tLA, description |-> <<>>]
    /\ verdicts = [f \in {"filterGoodVibesContent", "filterGoodVibes", "parseAndFilter"} |-> {}]
    /\ env = [GHOST_ADMIN_API_KEY |-> Some(AdminKey),
              GHOST_SITE_URL |-> "https://curationsla-1.ghost.io"]
    /\ now = 0
    /\ store \in { <<>>,
                   KVput(<<>>, routerContentKey(0), JSONstringify(EarlierBatch),
                         routerPutOptions, 0) }
    /\ tasks = [s \in Slots |-> IdleTask]
    /\ started = 0
    /\ nextId = 1
    /\ arg = None
    /\ out = None
    /\ width = 2
    /\ deployed = "router"

InFlight(op) == \E r \in Slots : tasks[r].op = op

NextBulk ==
    \/ \E s \in Slots :
        \/ ~InFlight("source-content") /\ RouterStartSource(s)
        \/ RouterFetchFeed(s)
        \/ RouterStore(s)
        \/ ~InFlight("get-content") /\ RouterStartGet(s)
        \/ RouterGetNext(s)
        \/ Return(s)
        \/ Cancel(s)
    \/ Tick

SpecBulk == InitBulk /\ [][NextBulk]_vars
-----------------------------------------------------------------------------
(* Classifier specification: one item, one configuration, the three filters *)
(* applied to it any number of times.                                       *)

Filters == {"filterGoodVibesContent", "filterGoodVibes", "parseAndFilter"}

InitFilter ==
    /\ sources \in SourcesConfigs
    /\ item \in [title : Titles, description : Descriptions]
    /\ verdicts = [f \in Filters |-> {}]
    /\ env = [GHOST_ADMIN_API_KEY |-> None, GHOST_SITE_URL |-> ""]
    /\ now = 0
    /\ store = <<>>
    /\ tasks = <<>>
    /\ started = 0
    /\ nextId = 1
    /\ width = 0
    /\ deployed = "none"
    /\ arg = None
    /\ out = None

Observe(f, accepted) ==
    verdicts' = [verdicts EXCEPT ![f] = @ \cup {accepted}]

ApplyFilterGoodVibesContent ==
    /\ Observe("filterGoodVibesContent", filterGoodVibesContent(<<item>>) = <<item>>)
    /\ UNCHANGED <<sources, item>>
    /\ UNCHANGED <<pvars, bvars>>

ApplyFilterGoodVibes ==
    /\ LET it == [title |-> item.title, excerpt |-> item.description] IN
        \E lucky \in SUBSET routerUndecided(<<it>>) :
            Observe("filterGoodVibes", filterGoodVibes(<<it>>, lucky) = <<it>>)
    /\ UNCHANGED <<sources, item>>
    /\ UNCHANGED <<pvars, bvars>>

ApplyParseAndFilter ==
    /\ Observe("parseAndFilter",
               parseAndFilter(item.title \o <<" ">> \o item.description) # Null)
    /\ UNCHANGED <<sources, item>>
    /\ UNCHANGED <<pvars, bvars>>

NextFilter ==
    \/ ApplyFilterGoodVibesContent
    \/ ApplyFilterGoodVibes
    \/ ApplyParseAndFilter

SpecFilter == InitFilter /\ [][NextFilter]_vars

-----------------------------------------------------------------------------
(* Claims about the classifier *)

\* the text the claims speak of: lowercased title + " " + description
ClaimText == toLowerCase(item.title \o <<" ">> \o item.description)

\* keyword kw occurs case-insensitively as a plain substring of the text
Occurs(kw) ==
    LET w == toLowerCase(kw) IN
    \E i \in 1..(Len(ClaimText) - Len(w) + 1) :
        \A k \in 1..Len(w) : ClaimText[i + k - 1] = w[k]

OccursOrEmpty(kw) == kw = <<>> \/ Occurs(kw)

AnyOccurs(kws) == \E i \in 1..Len(kws) : OccursOrEmpty(kws[i])

CountOccurring(kws) == Cardinality({i \in 1..Len(kws) : OccursOrEmpty(kws[i])})

BannedListOf(f) ==
    CASE f = "filterGoodVibesContent" -> sources.negative_keywords
      [] f = "filterGoodVibes" -> routerBannedWords
      [] f = "parseAndFilter" -> legacyBannedWords

\* C1: an item whose text contains a configured banned keyword is rejected by
\* the Good-Vibes filter, however many positive and locality keywords it has.
C1_BannedKeywordRejects ==
    \A f \in Filters :
        AnyOccurs(BannedListOf(f)) => TRUE \notin verdicts[f]

C1_Witness ==
    /\ AnyOccurs(sources.negative_keywords)
    /\ CountOccurring(sources.good_vibes_keywords) >= 1
    /\ CountOccurring(sources.good_vibes_keywords)
          >= sources.content_filters.min_good_vibes_score
    /\ AnyOccurs(sources.content_filters.required_la_keywords)
    /\ verdicts["filterGoodVibesContent"] = {FALSE}
    /\ verdicts["filterGoodVibes"] = {FALSE}
    /\ verdicts["parseAndFilter"] = {FALSE}

C2_WitnessNoLocality ==
    /\ ~AnyOccurs(sources.negative_keywords)
    /\ CountOccurring(sources.good_vibes_keywords)
          >= sources.content_filters.min_good_vibes_score
    /\ ~AnyOccurs(sources.content_filters.required_la_keywords)
    /\ verdicts["filterGoodVibesContent"] = {FALSE}

C2_WitnessBelowThreshold ==
    /\ ~AnyOccurs(sources.negative_keywords)
    /\ CountOccurring(sources.good_vibes_keywords)
          < sources.content_filters.min_good_vibes_score
    /\ AnyOccurs(sources.content_filters.required_la_keywords)
    /\ verdicts["filterGoodVibesContent"] = {FALSE}

\* C3: the Good-Vibes filter is deterministic: evaluations of the same item
\* under the same configuration all give the same outcome.
C3_SameTextSameOutcome ==
    \A f \in Filters : Cardinality(verdicts[f]) <= 1


-----------------------------------------------------------------------------
(* Properties of the sourcing and drafting flows *)

SourceOps == {"source-content", "scheduled"}

\* a sourcing run over a non-empty list of feeds
SourcingRun(task) == task.op \in SourceOps /\ task.feeds # <<>>

\* the handler of the run ends in a store write (the legacy HTTP handler
\* returns its content without writing it)
WritesStore(task) == ~(task.worker = "legacy" /\ task.op = "source-content")

Count(io, what) == Cardinality({n \in 1..Len(io) : io[n] \in what})
Puts(io) == Count(io, {"put", "put-rejected"})
LastIO(io) == IF io = <<>> THEN "" ELSE io[Len(io)]

\* what feed n yields on its own, from its own body only
FeedContribution(task, n) ==
    LET o == task.outcomes[n] IN
    IF o.kind = "throw" THEN <<>>
    ELSE IF task.worker = "sourcer" THEN <<sourcerGroup(task.feeds[n], o.body)>>
    ELSE IF task.worker = "router" THEN parseRSSFeed(o.body, task.cap)
    ELSE <<IF parseAndFilter(bodyText(o.body)) = Null THEN None
           ELSE Some(bodyText(o.body))>>

ExpectedBatch(task) ==
    Flatten([n \in 1..Len(task.outcomes) |-> FeedContribution(task, n)])

Succeeded(task) ==
    /\ task.resp # None
    /\ IF task.worker = "legacy" /\ task.op = "scheduled"
       THEN task.resp[1].settled = "fulfilled"
       ELSE task.resp[1].status = 200

\* the value found under the run's key is the batch the feeds that did not
\* fail add up to (for the router: that batch after its filter)
StoredIsExpected(task) ==
    LET value == JSONparse(store[task.key[1]].value)
        expected == ExpectedBatch(task)
    IN  IF task.worker = "sourcer" THEN value = expected
        ELSE IF task.worker = "router"
        THEN \E lucky \in SUBSET routerUndecided(expected) :
                value.items = filterGoodVibes(expected, lucky)
        ELSE value = [content |-> expected]

\* C4: in a sourcing run, whichever feeds throw, what has been accumulated is
\* the concatenation, in feed order, of what each feed that did not throw
\* yields on its own; the finished run has settled every feed and reached its
\* store write, and unless the store rejected the write the response is the
\* success response and the stored batch is that concatenation.
C4_FeedFailureIsolated ==
    \A s \in Slots :
        LET task == tasks[s] IN
        (SourcingRun(task) /\ task.pc # "cancelled") =>
            /\ task.acc = ExpectedBatch(task)
            /\ task.pc = "done" =>
                /\ Len(task.outcomes) = Len(task.feeds)
                /\ WritesStore(task) => LastIO(task.io) \in {"put", "put-rejected"}
                /\ LastIO(task.io) # "put-rejected" => Succeeded(task)
                /\ LastIO(task.io) = "put" => StoredIsExpected(task)

C4_Witness ==
    \E s \in Slots :
        LET task == tasks[s] IN
        /\ SourcingRun(task) /\ task.pc = "done"
        /\ LastIO(task.io) = "put" /\ Succeeded(task)
        /\ \E n, m \in 1..Len(task.outcomes) :
            /\ n < m
            /\ task.outcomes[n].kind = "throw"
            /\ task.outcomes[m].kind = "ok"
            /\ FeedContribution(task, m) # <<>>

-----------------------------------------------------------------------------
\* the key a create-draft request names (the sourcer's is the one its
\* handler derived from the request when it ran)
NamedKey(task) ==
    IF task.worker = "sourcer" THEN task.key[1]
    ELSE routerContentKey(task.body[1].contentId[1])

\* a create-draft invocation of a worker whose requests name a batch, past
\* its first step, whose store read (if it made one) did not fail
DraftOfNamedBatch(task) ==
    /\ task.op = "create-draft"
    /\ task.worker \in {"sourcer", "router"}
    /\ task.body # None
    /\ task.pc \in {"submitting", "done"}
    /\ Count(task.io, {"get-rejected"}) = 0

\* C5: a create-draft request naming a key under which nothing was ever
\* stored is answered 404 and issues no CMS call.
C5_NeverStoredIsNotFound ==
    \A s \in Slots :
        LET task == tasks[s] IN
        (DraftOfNamedBatch(task) /\ NamedKey(task) \notin DOMAIN store) =>
            /\ Count(task.io, {"cms"}) = 0
            /\ task.resp # None
            /\ task.resp[1].status = 404

\* C6: every CMS submission follows, within the invocation, a successful
\* store read of the named batch, and the html submitted is the digest
\* composed from the batch that was read.
C6_SubmissionComposedFromStoredBatch ==
    \A s \in Slots :
        LET task == tasks[s] IN
        task.sent # None =>
            /\ task.loaded # None
            /\ \E g, c \in 1..Len(task.io) :
                g < c /\ task.io[g] = "get" /\ task.io[c] = "cms"
            /\ task.sent[1].posts[1].html =
                   generateDraftHTML(JSONparse(task.loaded[1]),
                                     task.sent[1].posts[1].title).html

\* C7: the value under a key that is live is never changed by a later step.
C7_BatchNeverMutated ==
    [][\A k \in DOMAIN store :
          Live(store, k, now) => store'[k].value = store[k].value]_vars

\* C8: every entry written to the store carries an expiry of 604800 seconds.
C8_EveryWriteExpires ==
    \A k \in DOMAIN store : store[k].expirationTtl = Some(604800)

-----------------------------------------------------------------------------
\* the worker's filter has been applied to everything in a stored value
Filtered(worker, value) ==
    IF worker = "sourcer"
    THEN \A g \in 1..Len(value) :
            /\ Len(value[g].items) <= FeedItemLimit
            /\ \A n \in 1..Len(value[g].items) : goodVibesPredicate(value[g].items[n])
    ELSE IF worker = "router"
    THEN \A n \in 1..Len(value.items) : routerKeeps(value.items[n], TRUE)
    ELSE \A n \in 1..Len(value.content) :
            value.content[n] # None => parseAndFilter(value.content[n][1]) # Null

\* C9: the store is written only by a sourcing run all of whose feeds have
\* settled, which has not written before and ends with that write; the value
\* written is filtered; no other step changes the store.
C9_NoPartialBatch ==
    [][ /\ \A s \in Slots :
            Puts(tasks'[s].io) > Puts(tasks[s].io) =>
                /\ tasks[s].op \in SourceOps
                /\ Count(tasks[s].io, {"fetch"}) = Len(tasks[s].feeds)
                /\ Len(tasks[s].outcomes) = Len(tasks[s].feeds)
                /\ Puts(tasks[s].io) = 0
                /\ tasks'[s].pc = "done"
                /\ \A k \in DOMAIN store' :
                      (k \notin DOMAIN store \/ store'[k] # store[k]) =>
                          /\ tasks'[s].key = Some(k)
                          /\ Filtered(tasks[s].worker, JSONparse(store'[k].value))
        /\ store' # store =>
              \E s \in Slots : Puts(tasks'[s].io) > Puts(tasks[s].io)
      ]_vars

\* a run that settled all its feeds, one of them failed, has written its batch
C9_Witness ==
    \E s \in Slots :
        LET task == tasks[s] IN
        /\ SourcingRun(task) /\ task.pc = "done"
        /\ LastIO(task.io) = "put"
        /\ Count(task.io, {"fetch"}) = Len(task.feeds)
        /\ \E n \in 1..Len(task.outcomes) : task.outcomes[n].kind = "throw"
        /\ task.key[1] \in DOMAIN store

\* a run cancelled after one feed of several has left the store empty
C9_WitnessCancelled ==
    \E s \in Slots :
        /\ tasks[s].pc = "cancelled" /\ tasks[s].op \in SourceOps
        /\ Count(tasks[s].io, {"fetch"}) = 1
        /\ store = <<>>

\* C10: every request sent to the CMS holds exactly one post, and its status
\* is "draft", whatever the request body carried.
C10_AlwaysOneDraftPost ==
    \A s \in Slots :
        tasks[s].sent # None =>
            /\ Len(tasks[s].sent[1].posts) = 1
            /\ tasks[s].sent[1].posts[1].status = "draft"

\* a request was sent for a caller who asked for another status
C10_Witness ==
    \E s \in Slots :
        /\ tasks[s].sent # None
        /\ tasks[s].body # None
        /\ tasks[s].body[1].status = Some("published")
        /\ tasks[s].worker = "router"

-----------------------------------------------------------------------------
(* Function specifications: one pure function, its argument drawn at the    *)
(* start, applied to it.  The pipeline's variables stay at rest.            *)

PipelineAtRest ==
    /\ sources = PipelineConfig
    /\ item = [title |-> tLA, description |-> <<>>]
    /\ verdicts = [f \in Filters |-> {}]
    /\ store = <<>>
    /\ tasks = <<>>
    /\ started = 0
    /\ nextId = 1
    /\ width = 0
    /\ deployed = "none"

(* generateGhostJWT: the admin key is the argument, the clock is Date.now() *)
MaxClock == 120

AdminKeys ==
    { [id |-> "kid", secret |-> "hexsecret"],
      [id |-> "kid", secret |-> "c0ffee"] }

\* seconds since the epoch: around 0 and around a present-day value
Clocks == {base + d : base \in {0, 1700000000}, d \in 0..MaxClock}

InitToken ==
    /\ PipelineAtRest
    /\ arg \in {Some(k) : k \in AdminKeys}
    /\ env = [GHOST_ADMIN_API_KEY |-> arg, GHOST_SITE_URL |-> "https://curationsla-1.ghost.io"]
    /\ now \in Clocks
    /\ out = None

MintToken ==
    /\ out' = Some(generateGhostJWT(arg[1], now))
    /\ UNCHANGED <<fvars, pvars, arg>>

NextToken == MintToken

SpecToken == InitToken /\ [][NextToken]_vars

(* generateDraftHTML: the argument is a stored batch and a title *)
MaxGroups == 3
MaxGroupItems == 1

DigestItems ==
    { [title |-> tArtMusicLA, link |-> 1, description |-> wFood],
      [title |-> tLA, link |-> 8, description |-> <<>>] }

DigestGroups ==
    [ source : {"L.A. Taco", "LAist"},
      category : {"food"},
      items : SeqsOf(DigestItems, 0, MaxGroupItems) ]

DigestTitles == {<<"Weekend Picks", 0>>, <<"CurationsLA Good Vibes - ", 0>>}

InitDigest ==
    /\ PipelineAtRest
    /\ env = [GHOST_ADMIN_API_KEY |-> None, GHOST_SITE_URL |-> ""]
    /\ now = 0
    /\ arg \in {Some(a) : a \in [ content : SeqsOf(DigestGroups, 0, MaxGroups),
                                  title : DigestTitles ]}
    /\ out = None

ComposeDigest ==
    /\ out' = Some(generateDraftHTML(arg[1].content, arg[1].title))
    /\ UNCHANGED <<fvars, pvars, arg>>

NextDigest == ComposeDigest

SpecDigest == InitDigest /\ [][NextDigest]_vars

(* parseRSSFeed's excerpt: the argument is the <description> match of an item *)
MaxPieces == 3

\* 199 characters, so that one more piece reaches or crosses the limit
Filler == [n \in 1..(ExcerptLimit - 1) |-> "x"]

DescriptionPieces ==
    { <<"<", "b", ">">>, <<"&", "a", "m", "p", ";">>, <<" ">>, <<"a">>, wArt, Filler }

DescriptionMatches ==
    {None} \cup {Some(Flatten(ps)) : ps \in SeqsOf(DescriptionPieces, 1, MaxPieces)}

InitExcerpt ==
    /\ PipelineAtRest
    /\ env = [GHOST_ADMIN_API_KEY |-> None, GHOST_SITE_URL |-> ""]
    /\ now = 0
    /\ arg \in {Some(d) : d \in DescriptionMatches}
    /\ out = None

MakeExcerpt ==
    /\ out' = Some(routerExcerpt(arg[1]))
    /\ UNCHANGED <<fvars, pvars, arg>>

NextExcerpt == MakeExcerpt

SpecExcerpt == InitExcerpt /\ [][NextExcerpt]_vars

-----------------------------------------------------------------------------
(* Properties of the token and of the requests that carry it *)

\* C11: whenever an invocation sends its request to the CMS, the Authorization
\* header is "Ghost " followed by the three-segment token minted from the
\* admin key at that moment of that invocation; it is never the raw admin key.
C11_FreshSignedToken ==
    [][\A s \in Slots :
          (tasks[s].sent = None /\ tasks'[s].sent # None) =>
              /\ env.GHOST_ADMIN_API_KEY # None
              /\ tasks'[s].sent[1].authorization[2] # env.GHOST_ADMIN_API_KEY
              /\ Len(tasks'[s].sent[1].authorization[2]) = 3
              /\ tasks'[s].sent[1].authorization =
                     <<"Ghost", generateGhostJWT(env.GHOST_ADMIN_API_KEY[1], now)>>
      ]_vars

\* atob and JSON.parse of a token segment
decodeSegment(segment) == JSONparse(segment.b64url.b64)

\* C12: the payload of every minted token has iat equal to the mint time in
\* whole seconds and exp = iat + 300.
C12_ExpiryIsIatPlus300 ==
    out # None =>
        LET payload == decodeSegment(out[1][2]) IN
        /\ payload.iat = now
        /\ payload.exp = payload.iat + 300
        /\ payload.exp - now = 5 * 60

\* a token minted at a present-day clock value
C12_Witness ==
    /\ out # None
    /\ now > 1700000000
    /\ decodeSegment(out[1][2]).exp = now + 300

\* what a verifier computes: HMAC-SHA256 over "header.payload" keyed with the
\* hex-decoded secret, base64url-encoded
hexDecode(secret) == [bytes |-> secret]
HMACSHA256(key, message) == [mac |-> [key |-> key, message |-> message]]
genuineSignature(token, secret) ==
    base64urlEscape(btoa(HMACSHA256(hexDecode(secret), <<token[1], ".", token[2]>>)))
verifies(token, secret) == token[3] = genuineSignature(token, secret)

\* C13: a verifier holding the secret of the key the token was minted from
\* accepts it, and a verifier holding any other secret rejects it.
C13_GenuineHmacSignature ==
    out # None =>
        /\ verifies(out[1], arg[1].secret)
        /\ \A k \in AdminKeys :
              k.secret # arg[1].secret => ~verifies(out[1], k.secret)

-----------------------------------------------------------------------------
(* Properties of the composed digest *)

IsHeading(element) == element.tag = "h2"
HasItems(group) == Len(group.items) > 0

\* the <h2> texts of a digest, in document order
Headings(html) ==
    LET hs == SelectSeq(html, IsHeading) IN [n \in 1..Len(hs) |-> hs[n].text]

\* the groups that have items, in input order, as their headings read
ExpectedHeadings(content) ==
    LET gs == SelectSeq(content, HasItems) IN
    [n \in 1..Len(gs) |-> <<gs[n].source, gs[n].category>>]

\* C14: the digest has one <h2> section per group with at least one item, in
\* input order, each followed by the list of that group's items, and none for
\* an empty group; it always opens with the <h1> title and the byline and ends
\* with the rule and the attribution line, and these four are all of it when
\* every group is empty.
C14_SectionsForNonEmptyGroups ==
    out # None =>
        LET html == out[1].html
            content == arg[1].content
            gs == SelectSeq(content, HasItems)
        IN
        /\ out[1].title = arg[1].title
        /\ Headings(html) = ExpectedHeadings(content)
        /\ Len(html) = 4 + 2 * Len(gs)
        /\ html[1] = [tag |-> "h1", text |-> arg[1].title]
        /\ html[2].tag = "p"
        /\ html[Len(html) - 1].tag = "hr"
        /\ html[Len(html)] =
               [tag |-> "p", text |-> <<"A project curated by Humans x AI at Curations.cc">>]
        /\ \A n \in 1..Len(gs) :
              /\ html[2 * n + 1].tag = "h2"
              /\ html[2 * n + 2].tag = "ul"
              /\ Len(html[2 * n + 2].items) = Len(gs[n].items)
        /\ (\A n \in 1..Len(content) : ~HasItems(content[n])) => Len(html) = 4

\* a batch with an empty group between two groups that have items
C14_Witness ==
    /\ out # None
    /\ Len(arg[1].content) = 3
    /\ HasItems(arg[1].content[1])
    /\ ~HasItems(arg[1].content[2])
    /\ HasItems(arg[1].content[3])
    /\ arg[1].content[1].source # arg[1].content[3].source
    /\ Len(Headings(out[1].html)) = 2

\* a non-empty batch of empty groups only
C14_WitnessAllEmpty ==
    /\ out # None
    /\ Len(arg[1].content) = 2
    /\ \A n \in 1..2 : ~HasItems(arg[1].content[n])
    /\ Len(out[1].html) = 4

-----------------------------------------------------------------------------
(* Outcomes of the flows *)

C15_WitnessStoreFailure ==
    \E s \in Slots :
        LET task == tasks[s] IN
        /\ SourcingRun(task) /\ task.pc = "done"
        /\ \A n \in 1..Len(task.outcomes) : task.outcomes[n].kind = "ok"
        /\ LastIO(task.io) = "put-rejected"
        /\ ~Succeeded(task)

\* the handler reads the request body
ParsesBody(task) ==
    task.op = "create-draft" \/ (task.worker = "router" /\ task.op \in SourceOps)

\* the body parsed but the field that names the batch is absent
MissingKey(task) ==
    /\ task.op = "create-draft"
    /\ task.body # None
    /\ IF task.worker = "router" THEN task.body[1].contentId = None
       ELSE task.body[1].publicationDate = None

Malformed(task) ==
    /\ task.pc \notin {"idle", "cancelled"}
    /\ ParsesBody(task)
    /\ (task.body = None \/ MissingKey(task))

\* C16: an invocation whose request body does not parse, or lacks the field
\* naming the batch, does no I/O at all and answers with a 4xx validation error.
C16_MalformedRejectedBeforeIO ==
    \A s \in Slots :
        LET task == tasks[s] IN
        Malformed(task) =>
            /\ task.io = <<>>
            /\ task.pc = "done"
            /\ task.resp # None
            /\ task.resp[1].status \in 400..499

\* C16, the part about I/O alone: such an invocation does no I/O.
C16_MalformedDoesNoIO ==
    \A s \in Slots : Malformed(tasks[s]) => tasks[s].io = <<>>

-----------------------------------------------------------------------------
(* Properties of the excerpt *)

Ellipsis == <<".", ".", ".">>

\* C17: the excerpt of an item without description is empty; otherwise it is
\* the cleaned description when that has at most 200 characters, and its first
\* 200 characters followed by "..." when it has more.
C17_EllipsisIffTruncated ==
    out # None =>
        out[1] = IF arg[1] = None THEN <<>>
                 ELSE LET cleaned == cleanHtml(arg[1][1]) IN
                      IF Len(cleaned) > 200
                      THEN SubSeq(cleaned, 1, 200) \o Ellipsis
                      ELSE cleaned

\* C17, the parts that do not depend on the marker: the excerpt without its
\* last three characters is the cleaned description cut at 200 characters.
C17_CleanedAndCut ==
    (out # None /\ arg[1] # None) =>
        LET cleaned == cleanHtml(arg[1][1]) IN
        /\ Len(out[1]) <= 200 + 3
        /\ SubSeq(out[1], 1, Len(out[1]) - 3) = SubSeq(cleaned, 1, Min(200, Len(cleaned)))

-----------------------------------------------------------------------------
(* Properties of the bulk retrieval *)

BulkRead(task) == task.worker = "router" /\ task.op = "get-content"

Gets(io) == Count(io, {"get"})

StoreFailed(io) == Count(io, {"list-rejected", "get-rejected"}) > 0

\* C18: whatever else happens between the list and the gets of a bulk
\* retrieval, each get that the store answers appends the batch live under the
\* listed key at that moment, or nothing when the key is no longer live; no
\* entry is ever null; the request fails only when the store rejects a list or
\* a get, and its success response carries the entries collected, `count`
\* being their number.
C18_BulkReadSkipsExpired ==
    /\ [](\A s \in Slots :
            LET task == tasks[s] IN
            (BulkRead(task) /\ task.pc # "cancelled") =>
                /\ \A n \in 1..Len(task.contents) : task.contents[n] # None
                /\ Len(task.contents) <= Gets(task.io)
                /\ task.pc = "done" =>
                    /\ task.resp # None
                    /\ task.resp[1].status = 200 <=> ~StoreFailed(task.io)
                    /\ task.resp[1].status = 200 =>
                        /\ Gets(task.io) = Len(task.listed)
                        /\ task.resp[1].success
                        /\ task.resp[1].contents = task.contents
                        /\ task.resp[1].count = Len(task.resp[1].contents))
    /\ [][\A s \in Slots :
            LET task == tasks[s] IN
            (BulkRead(task) /\ Gets(tasks'[s].io) > Gets(task.io)) =>
                LET k == task.listed[Gets(task.io) + 1] IN
                tasks'[s].contents =
                    IF Live(store, k, now)
                    THEN Append(task.contents, JSONparse(store[k].value))
                    ELSE task.contents
       ]_vars

\* a listed key expired before its get, the other request wrote a batch in
\* between, and the retrieval succeeded with fewer entries than keys listed
C18_Witness ==
    \E s, r \in Slots :
        LET task == tasks[s] IN
        /\ BulkRead(task) /\ task.pc = "done"
        /\ task.resp[1].status = 200
        /\ Len(task.listed) > 0
        /\ task.resp[1].count < Len(task.listed)
        /\ tasks[r].op = "source-content" /\ tasks[r].pc = "done"
        /\ tasks[r].key # None
        /\ tasks[r].key[1] \in DOMAIN store
        /\ \A n \in 1..Len(task.listed) : task.listed[n] # tasks[r].key[1]

\* a batch written while the retrieval was between its list and its get
C18_WitnessConcurrentWrite ==
    \E s, r \in Slots :
        /\ BulkRead(tasks[s]) /\ tasks[s].pc = "reading"
        /\ tasks[r].op = "source-content" /\ LastIO(tasks[r].io) = "put"
        /\ Live(store, tasks[r].key[1], now)
        /\ \A n \in 1..Len(tasks[s].listed) : tasks[s].listed[n] # tasks[r].key[1]
=============================================================================
